---- MODULE Spec2Model ----
(***************************************************************************)
(* A model of go-crypto-dashboard:                                         *)
(*   - CoinGeckoClient.FetchCryptoPrices, the goroutine-per-identifier      *)
(*     fan-out over a results and an errors channel (api/coingecko.go);     *)
(*   - the domain entities CryptoPrice and CryptoBatch (package models).    *)
(* float64 prices are modelled by integers; a formatted timestamp keeps    *)
(* whole seconds only, as time.RFC3339 does.                                *)
(***************************************************************************)
EXTENDS Integers, Sequences, FiniteSets, TLC

VARIABLES
    cryptoIDs,   \* FetchCryptoPrices: the argument
    pc,          \* FetchCryptoPrices: position of the caller
    launched,    \* number of goroutines started by the range loop
    i,           \* the collection loop's counter
    results,     \* buffered channel of CryptoPrice
    errors,      \* buffered channel of error
    prices,      \* the local slice the caller appends to
    ret,         \* what FetchCryptoPrices returned
    task,        \* per goroutine: position and locals
    crashed,     \* an unrecovered panic terminated the process
    resultsLog,  \* history: every send on results, in order, with its sender
    errorsLog,   \* history: every send on errors, in order, with its sender
    crypto,      \* a CryptoPrice entity (receiver of Validate / UpdatePrice)
    batch,       \* a CryptoBatch (its Prices slice)
    now,         \* the wall clock, in ticks
    call         \* the last call made on the entity or the batch

fetchVars == <<cryptoIDs, pc, launched, i, results, errors, prices, ret, task,
               crashed, resultsLog, errorsLog>>
modelVars == <<crypto, batch, now, call>>
vars == <<cryptoIDs, pc, launched, i, results, errors, prices, ret, task,
          crashed, resultsLog, errorsLog, crypto, batch, now, call>>

----------------------------------------------------------------------------
(* Bounds of the model *)

MaxIDs == 2
MaxBatch == 2
MaxTick == 3

----------------------------------------------------------------------------
(* Values *)

Nil == <<"nil">>

IDs == {"bitcoin", "ethereum"}

SeqsUpTo(S, n) == UNION {[1..k -> S] : k \in 0..n}

\* time.Now().UTC().Format(time.RFC3339): the layout has no fraction of a
\* second, so the ticks within one second format alike.
TicksPerSecond == 2
FormatRFC3339(t) == [layout |-> "RFC3339", sec |-> t \div TicksPerSecond]
NoTime == [layout |-> "", sec |-> 0]

CryptoPrice(id, symbol, name, price, updated) ==
    [ID |-> id, Symbol |-> symbol, Name |-> name, CurrentPrice |-> price,
     LastUpdated |-> updated]

\* CryptoPrice{}, the zero value
ZeroCrypto == CryptoPrice("", "", "", 0, NoTime)

\* no call has been made on the entity or the batch yet
NoCall ==
    [op |-> "none", arg |-> 0, pre |-> ZeroCrypto, preBatch |-> <<>>, at |-> 0,
     err |-> Nil, panic |-> Nil, out |-> ZeroCrypto]

----------------------------------------------------------------------------
(* HTTP: what c.httpClient.Get can give one goroutine *)

StatusOK == 200
Statuses == {StatusOK, 500}

InvalidJSON == [valid |-> FALSE, data |-> <<>>]
JSONObject(d) == [valid |-> TRUE, data |-> d]
\* "invalid json", {"bitcoin":{"usd":50000}} and {"ethereum":{"usd":3000}}
Bodies == {InvalidJSON,
           JSONObject([k \in {"bitcoin"} |-> [usd |-> 50000]]),
           JSONObject([k \in {"ethereum"} |-> [usd |-> 3000]])}

NoResp == [err |-> Nil, status |-> 0, body |-> InvalidJSON]
TransportFailure == [err |-> <<"Get: connection failed">>, status |-> 0,
                     body |-> InvalidJSON]
Responses == {TransportFailure}
             \cup {[err |-> Nil, status |-> s, body |-> InvalidJSON] :
                     s \in Statuses \ {StatusOK}}
             \cup {[err |-> Nil, status |-> StatusOK, body |-> b] : b \in Bodies}

\* json.NewDecoder(resp.Body).Decode(&data)
Decode(body) ==
    IF body.valid THEN [err |-> Nil, data |-> body.data]
    ELSE [err |-> <<"invalid character">>, data |-> <<>>]

\* data[cryptoID]["usd"]: a missing key reads as the zero value
Lookup(data, id) == IF id \in DOMAIN data THEN data[id].usd ELSE 0

PanicValue(status) == <<"API returned status code:", status>>
PanicError(r) == <<"panic occurred:", r>>

----------------------------------------------------------------------------
(* FetchCryptoPrices *)

\* Mutant: channels of a fixed capacity of one.
ChanCapOne(ids) == 1

\* make(chan ..., len(cryptoIDs))
ChanCap(ids) == Len(ids)

Tasks == 1..Len(cryptoIDs)

\* the (prices, err) pair handed to the caller; meaningful once pc = "returned"
NoReturn == [prices |-> <<>>, err |-> Nil]

IdleTask == [pc |-> "idle", resp |-> NoResp, val |-> Nil, panic |-> Nil]

InitFetch ==
    /\ cryptoIDs \in SeqsUpTo(IDs, MaxIDs)
    /\ pc = "launch"
    /\ launched = 0
    /\ i = 0
    /\ results = <<>>
    /\ errors = <<>>
    /\ prices = <<>>
    /\ ret = NoReturn
    /\ task = [t \in 1..Len(cryptoIDs) |-> IdleTask]
    /\ crashed = FALSE
    /\ resultsLog = <<>>
    /\ errorsLog = <<>>

\* for _, id := range cryptoIDs { go func(cryptoID string) {...}(id) }
Launch ==
    /\ pc = "launch"
    /\ IF launched < Len(cryptoIDs)
       THEN /\ task' = [task EXCEPT ![launched + 1].pc = "get"]
            /\ launched' = launched + 1
            /\ pc' = pc
       ELSE /\ pc' = "collect"
            /\ UNCHANGED <<task, launched>>
    /\ UNCHANGED <<cryptoIDs, i, results, errors, prices, ret, crashed,
                   resultsLog, errorsLog>>

\* resp, err := c.httpClient.Get(url); if err != nil { errors <- err; return }
TaskGet(t) ==
    /\ task[t].pc = "get"
    /\ \E r \in Responses :
         task' = [task EXCEPT ![t] =
                    IF r.err # Nil
                    THEN [task[t] EXCEPT !.pc = "senderr", !.val = r.err]
                    ELSE [task[t] EXCEPT !.pc = "status", !.resp = r]]
    /\ UNCHANGED <<cryptoIDs, pc, launched, i, results, errors, prices, ret,
                   crashed, resultsLog, errorsLog>>

\* if resp.StatusCode != http.StatusOK { panic(...) }
TaskCheckStatus(t) ==
    /\ task[t].pc = "status"
    /\ task' = [task EXCEPT ![t] =
                  IF task[t].resp.status # StatusOK
                  THEN [task[t] EXCEPT !.pc = "defer",
                                       !.panic = PanicValue(task[t].resp.status)]
                  ELSE [task[t] EXCEPT !.pc = "decode"]]
    /\ UNCHANGED <<cryptoIDs, pc, launched, i, results, errors, prices, ret,
                   crashed, resultsLog, errorsLog>>

\* Decode; on failure the error is sent, otherwise the price record is built
TaskDecode(t) ==
    /\ task[t].pc = "decode"
    /\ LET d == Decode(task[t].resp.body) IN
       task' = [task EXCEPT ![t] =
                  IF d.err # Nil
                  THEN [task[t] EXCEPT !.pc = "senderr", !.val = d.err]
                  ELSE [task[t] EXCEPT !.pc = "sendres",
                                 !.val = CryptoPrice(cryptoIDs[t], "", "",
                                            Lookup(d.data, cryptoIDs[t]),
                                            FormatRFC3339(now))]]
    /\ UNCHANGED <<cryptoIDs, pc, launched, i, results, errors, prices, ret,
                   crashed, resultsLog, errorsLog>>

\* Mutant: the return after the send is missing, so the goroutine goes on to
\* build and send a price record.
TaskSendErrNoReturn(t) ==
    /\ task[t].pc = "senderr"
    /\ Len(errors) < ChanCap(cryptoIDs)
    /\ errors' = Append(errors, task[t].val)
    /\ errorsLog' = Append(errorsLog, [task |-> t, err |-> task[t].val])
    /\ task' = [task EXCEPT ![t].pc = "sendres",
                            ![t].val = CryptoPrice(cryptoIDs[t], "", "", 0,
                                                   FormatRFC3339(now))]
    /\ UNCHANGED <<cryptoIDs, pc, launched, i, results, prices, ret, crashed,
                   resultsLog>>

\* errors <- err; return
TaskSendErr(t) ==
    /\ task[t].pc = "senderr"
    /\ Len(errors) < ChanCap(cryptoIDs)
    /\ errors' = Append(errors, task[t].val)
    /\ errorsLog' = Append(errorsLog, [task |-> t, err |-> task[t].val])
    /\ task' = [task EXCEPT ![t].pc = "defer"]
    /\ UNCHANGED <<cryptoIDs, pc, launched, i, results, prices, ret, crashed,
                   resultsLog>>

\* results <- price
TaskSendResult(t) ==
    /\ task[t].pc = "sendres"
    /\ Len(results) < ChanCap(cryptoIDs)
    /\ results' = Append(results, task[t].val)
    /\ resultsLog' = Append(resultsLog, [task |-> t, price |-> task[t].val])
    /\ task' = [task EXCEPT ![t].pc = "defer"]
    /\ UNCHANGED <<cryptoIDs, pc, launched, i, errors, prices, ret, crashed,
                   errorsLog>>

\* Mutant: the deferred function does not call recover().
TaskDeferNoRecover(t) ==
    /\ task[t].pc = "defer"
    /\ task' = [task EXCEPT ![t].pc = "exit"]
    /\ crashed' = (crashed \/ task[t].panic # Nil)
    /\ UNCHANGED <<cryptoIDs, pc, launched, i, results, errors, prices, ret,
                   resultsLog, errorsLog>>

\* defer func() { if r := recover(); r != nil { errors <- fmt.Errorf(...) } }()
\* A panic still in flight when the goroutine's function ends kills the process.
TaskDefer(t) ==
    /\ task[t].pc = "defer"
    /\ IF task[t].panic # Nil
       THEN /\ Len(errors) < ChanCap(cryptoIDs)
            /\ errors' = Append(errors, PanicError(task[t].panic))
            /\ errorsLog' = Append(errorsLog,
                              [task |-> t, err |-> PanicError(task[t].panic)])
            /\ task' = [task EXCEPT ![t].pc = "exit", ![t].panic = Nil]
       ELSE /\ task' = [task EXCEPT ![t].pc = "exit"]
            /\ UNCHANGED <<errors, errorsLog>>
    /\ crashed' = (crashed \/ task'[t].panic # Nil)
    /\ UNCHANGED <<cryptoIDs, pc, launched, i, results, prices, ret,
                   resultsLog>>

Task(t) ==
    \/ TaskGet(t)
    \/ TaskCheckStatus(t)
    \/ TaskDecode(t)
    \/ TaskSendErr(t)
    \/ TaskSendResult(t)
    \/ TaskDefer(t)

\* Mutant: the loop runs once too often.
LoopCondInclusive(k, ids) == k <= Len(ids)

\* for i := 0; i < len(cryptoIDs); i++
LoopCond(k, ids) == k < Len(ids)

\* Mutant: the received record is put in front of the slice.
CollectResultPrepend ==
    /\ pc = "collect"
    /\ LoopCond(i, cryptoIDs)
    /\ results # <<>>
    /\ prices' = <<Head(results)>> \o prices
    /\ results' = Tail(results)
    /\ i' = i + 1
    /\ UNCHANGED <<cryptoIDs, pc, launched, errors, ret, task, crashed,
                   resultsLog, errorsLog>>

\* case price := <-results: prices = append(prices, price)
CollectResult ==
    /\ pc = "collect"
    /\ LoopCond(i, cryptoIDs)
    /\ results # <<>>
    /\ prices' = Append(prices, Head(results))
    /\ results' = Tail(results)
    /\ i' = i + 1
    /\ UNCHANGED <<cryptoIDs, pc, launched, errors, ret, task, crashed,
                   resultsLog, errorsLog>>

\* Mutant: the error is returned together with the records collected so far.
CollectErrorPartial ==
    /\ pc = "collect"
    /\ LoopCond(i, cryptoIDs)
    /\ errors # <<>>
    /\ ret' = [prices |-> prices, err |-> Head(errors)]
    /\ errors' = Tail(errors)
    /\ pc' = "returned"
    /\ UNCHANGED <<cryptoIDs, launched, i, results, prices, task, crashed,
                   resultsLog, errorsLog>>

\* Mutant: the error is remembered and the loop keeps receiving until every
\* task has been heard from.
CollectErrorDrain ==
    /\ pc = "collect"
    /\ LoopCond(i, cryptoIDs)
    /\ errors # <<>>
    /\ ret' = [prices |-> <<>>, err |-> IF ret.err = Nil THEN Head(errors) ELSE ret.err]
    /\ errors' = Tail(errors)
    /\ i' = i + 1
    /\ pc' = IF LoopCond(i + 1, cryptoIDs) THEN "collect" ELSE "returned"
    /\ UNCHANGED <<cryptoIDs, launched, results, prices, task, crashed,
                   resultsLog, errorsLog>>

\* case err := <-errors: return nil, err
CollectError ==
    /\ pc = "collect"
    /\ LoopCond(i, cryptoIDs)
    /\ errors # <<>>
    /\ ret' = [prices |-> <<>>, err |-> Head(errors)]
    /\ errors' = Tail(errors)
    /\ pc' = "returned"
    /\ UNCHANGED <<cryptoIDs, launched, i, results, prices, task, crashed,
                   resultsLog, errorsLog>>

\* return prices, nil
ReturnPrices ==
    /\ pc = "collect"
    /\ ~LoopCond(i, cryptoIDs)
    /\ ret' = [prices |-> prices, err |-> Nil]
    /\ pc' = "returned"
    /\ UNCHANGED <<cryptoIDs, launched, i, results, errors, prices, task,
                   crashed, resultsLog, errorsLog>>

Caller == Launch \/ CollectResult \/ CollectError \/ ReturnPrices

\* the entities are not touched while FetchCryptoPrices runs
InitModelsIdle ==
    /\ crypto = ZeroCrypto
    /\ batch = <<>>
    /\ now = 0
    /\ call = NoCall

Init == InitFetch /\ InitModelsIdle

\* the process is alive; the entities are not touched
Running == ~crashed /\ UNCHANGED modelVars

Next ==
    \/ Running /\ Launch
    \/ Running /\ CollectResult
    \/ Running /\ CollectError
    \/ Running /\ ReturnPrices
    \/ \E t \in Tasks : Running /\ TaskGet(t)
    \/ \E t \in Tasks : Running /\ TaskCheckStatus(t)
    \/ \E t \in Tasks : Running /\ TaskDecode(t)
    \/ \E t \in Tasks : Running /\ TaskSendErr(t)
    \/ \E t \in Tasks : Running /\ TaskSendResult(t)
    \/ \E t \in Tasks : Running /\ TaskDefer(t)

Spec == Init /\ [][Next]_vars

\* Every HTTP request completes and the Go scheduler runs every runnable
\* goroutine: weak fairness on the caller and on each task.
FairSpec ==
    /\ Spec
    /\ WF_vars(Running /\ Caller)
    /\ \A t \in 1..MaxIDs : WF_vars(Running /\ t \in Tasks /\ Task(t))

----------------------------------------------------------------------------
(* Package models: CryptoPrice and CryptoBatch *)

SamplePrices == {-1000, -1, 0, 1, 51000}

\* every entity a literal can construct over the sample field values;
\* construction validates nothing
Entities ==
    {CryptoPrice(id, sym, name, p, lu) :
        id \in {"", "bitcoin"}, sym \in {"", "btc"}, name \in {"", "Bitcoin"},
        p \in {-100, 0, 50000}, lu \in {NoTime, FormatRFC3339(0)}}

BTC == CryptoPrice("bitcoin", "btc", "Bitcoin", 50000, NoTime)
ETH == CryptoPrice("ethereum", "eth", "Ethereum", 3000, NoTime)
\* a second entry under the symbol "btc": duplicates are allowed
WBTC == CryptoPrice("wrapped-bitcoin", "btc", "Wrapped Bitcoin", 49000, NoTime)
SampleCryptos == {BTC, ETH, WBTC}
SampleSymbols == {"btc", "eth", "BTC", "invalid"}

\* Mutant: the name is not checked.
ValidateNoName(c) ==
    IF c.ID = "" THEN <<"crypto ID cannot be empty">>
    ELSE IF c.Symbol = "" THEN <<"crypto symbol cannot be empty">>
    ELSE IF c.CurrentPrice < 0 THEN <<"crypto price cannot be negative">>
    ELSE Nil

\* func (c *CryptoPrice) Validate() error
Validate(c) ==
    IF c.ID = "" THEN <<"crypto ID cannot be empty">>
    ELSE IF c.Symbol = "" THEN <<"crypto symbol cannot be empty">>
    ELSE IF c.Name = "" THEN <<"crypto name cannot be empty">>
    ELSE IF c.CurrentPrice < 0 THEN <<"crypto price cannot be negative">>
    ELSE Nil

\* Mutant: the price is stored before it is checked.
UpdatePriceStoreFirst(c, newPrice, t) ==
    [c |-> [c EXCEPT !.CurrentPrice = newPrice,
                     !.LastUpdated = FormatRFC3339(t)],
     err |-> IF newPrice < 0 THEN <<"price cannot be negative">> ELSE Nil]

\* func (c *CryptoPrice) UpdatePrice(newPrice float64) error, called at time t
UpdatePrice(c, newPrice, t) ==
    IF newPrice < 0
    THEN [c |-> c, err |-> <<"price cannot be negative">>]
    ELSE [c |-> [c EXCEPT !.CurrentPrice = newPrice,
                          !.LastUpdated = FormatRFC3339(t)],
          err |-> Nil]

\* func (c *CryptoPrice) MustUpdatePrice(newPrice float64), called at time t
MustUpdatePrice(c, newPrice, t) ==
    IF newPrice < 0
    THEN [c |-> c, panic |-> <<"price cannot be negative:", newPrice>>]
    ELSE [c |-> [c EXCEPT !.CurrentPrice = newPrice,
                          !.LastUpdated = FormatRFC3339(t)],
          panic |-> Nil]

\* func (b *CryptoBatch) AddCrypto(crypto CryptoPrice)
AddCrypto(b, c) == Append(b, c)

\* func (b *CryptoBatch) GetBySymbol(symbol string) (CryptoPrice, bool)
GetBySymbol(b, symbol) ==
    LET hits == {k \in DOMAIN b : b[k].Symbol = symbol} IN
    IF hits = {} THEN [out |-> ZeroCrypto, found |-> FALSE]
    ELSE [out |-> b[CHOOSE k \in hits : \A m \in hits : k <= m],
          found |-> TRUE]

\* func (b *CryptoBatch) TotalValue() float64
RECURSIVE TotalValue(_)
TotalValue(b) ==
    IF b = <<>> THEN 0
    ELSE TotalValue(SubSeq(b, 1, Len(b) - 1)) + b[Len(b)].CurrentPrice

\* Mutant: an index out of range yields the zero value, as GetBySymbol does.
GetPriceAtLenient(b, index) ==
    IF index < 0 \/ index >= Len(b)
    THEN [out |-> ZeroCrypto, panic |-> Nil]
    ELSE [out |-> b[index + 1], panic |-> Nil]

\* func (b *CryptoBatch) GetPriceAt(index int) CryptoPrice
GetPriceAt(b, index) ==
    IF index < 0 \/ index >= Len(b)
    THEN [out |-> ZeroCrypto, panic |-> <<"index out of bounds:", index>>]
    ELSE [out |-> b[index + 1], panic |-> Nil]

\* the record of a call: its argument, the receiver and the clock before it,
\* and what it gave back
Called(op, arg, err, panic, out) ==
    [op |-> op, arg |-> arg, pre |-> crypto, preBatch |-> batch, at |-> now,
     err |-> err, panic |-> panic, out |-> out]

InitFetchIdle ==
    /\ cryptoIDs = <<>>
    /\ pc = "launch"
    /\ launched = 0
    /\ i = 0
    /\ results = <<>>
    /\ errors = <<>>
    /\ prices = <<>>
    /\ ret = NoReturn
    /\ task = <<>>
    /\ crashed = FALSE
    /\ resultsLog = <<>>
    /\ errorsLog = <<>>

Tick ==
    /\ now < MaxTick
    /\ now' = now + 1
    /\ UNCHANGED <<crypto, batch, call>>

DoValidate ==
    /\ call' = Called("Validate", 0, Validate(crypto), Nil, crypto)
    /\ UNCHANGED <<crypto, batch, now>>

DoUpdatePrice(p) ==
    LET r == UpdatePrice(crypto, p, now) IN
    /\ crypto' = r.c
    /\ call' = Called("UpdatePrice", p, r.err, Nil, r.c)
    /\ UNCHANGED <<batch, now>>

DoMustUpdatePrice(p) ==
    LET r == MustUpdatePrice(crypto, p, now) IN
    /\ crypto' = r.c
    /\ call' = Called("MustUpdatePrice", p, Nil, r.panic, r.c)
    /\ UNCHANGED <<batch, now>>

InitPrice ==
    /\ InitFetchIdle
    /\ crypto \in Entities
    /\ batch = <<>>
    /\ now = 0
    /\ call = NoCall

NextPrice ==
    \/ UNCHANGED fetchVars /\ Tick
    \/ UNCHANGED fetchVars /\ DoValidate
    \/ \E p \in SamplePrices : UNCHANGED fetchVars /\ DoUpdatePrice(p)
    \/ \E p \in SamplePrices : UNCHANGED fetchVars /\ DoMustUpdatePrice(p)

SpecPrice == InitPrice /\ [][NextPrice]_vars

DoAddCrypto(c) ==
    /\ Len(batch) < MaxBatch
    /\ batch' = AddCrypto(batch, c)
    /\ call' = Called("AddCrypto", 0, Nil, Nil, c)
    /\ UNCHANGED <<crypto, now>>

DoGetBySymbol(sym) ==
    LET r == GetBySymbol(batch, sym) IN
    /\ call' = Called("GetBySymbol", sym, IF r.found THEN Nil ELSE <<"not found">>,
                      Nil, r.out)
    /\ UNCHANGED <<crypto, batch, now>>

DoTotalValue ==
    /\ call' = Called("TotalValue", TotalValue(batch), Nil, Nil, ZeroCrypto)
    /\ UNCHANGED <<crypto, batch, now>>

DoGetPriceAt(index) ==
    LET r == GetPriceAt(batch, index) IN
    /\ call' = Called("GetPriceAt", index, Nil, r.panic, r.out)
    /\ UNCHANGED <<crypto, batch, now>>

InitBatch ==
    /\ InitFetchIdle
    /\ crypto = ZeroCrypto
    /\ batch = <<>>
    /\ now = 0
    /\ call = NoCall

NextBatch ==
    \/ \E c \in SampleCryptos : UNCHANGED fetchVars /\ DoAddCrypto(c)
    \/ \E sym \in SampleSymbols : UNCHANGED fetchVars /\ DoGetBySymbol(sym)
    \/ UNCHANGED fetchVars /\ DoTotalValue
    \/ \E index \in -2..(MaxBatch + 1) : UNCHANGED fetchVars /\ DoGetPriceAt(index)

SpecBatch == InitBatch /\ [][NextBatch]_vars

----------------------------------------------------------------------------
(* Properties of FetchCryptoPrices *)

Range(s) == {s[k] : k \in DOMAIN s}

\* the values task t has sent on the two channels together
Outcomes(t) ==
    Cardinality({k \in DOMAIN resultsLog : resultsLog[k].task = t})
    + Cardinality({k \in DOMAIN errorsLog : errorsLog[k].task = t})

\* values taken out of a channel so far
ResultsReceived == Len(resultsLog) - Len(results)
ErrorsReceived == Len(errorsLog) - Len(errors)

Failing(t) ==
    \/ task[t].pc = "senderr"
    \/ task[t].panic # Nil
    \/ \E k \in DOMAIN errorsLog : errorsLog[k].task = t

\* C1: FetchCryptoPrices is all-or-nothing. A return with a nil error carries
\* exactly one record per identifier, each with the ID of the task that sent
\* it, and no task failed; a return with an error carries a nil slice and the
\* first error sent on the errors channel. A failed task forces an error.
C1_AllOrNothing ==
    pc = "returned" =>
        /\ ret.err = Nil =>
             /\ Len(ret.prices) = Len(cryptoIDs)
             /\ \A t \in Tasks : ~Failing(t)
             /\ {resultsLog[k].task : k \in DOMAIN resultsLog} = Tasks
             /\ \A k \in DOMAIN ret.prices :
                  ret.prices[k].ID = cryptoIDs[resultsLog[k].task]
        /\ ret.err # Nil =>
             /\ ret.prices = <<>>
             /\ errorsLog # <<>>
             /\ ret.err = errorsLog[1].err
        /\ (\E t \in Tasks : Failing(t)) => ret.err # Nil

\* a result was already received when the error arrived
C1_Witness ==
    /\ pc = "returned"
    /\ ret.err # Nil
    /\ prices # <<>>
    /\ Len(errorsLog) = 1

\* C2: a non-200 status panics inside its task, the deferred function recovers
\* the panic and sends it as an error; the process is never terminated and the
\* caller, once it has returned, holds a non-nil error.
C2_PanicRecovered ==
    /\ ~crashed
    /\ \A t \in Tasks :
         (task[t].resp # NoResp /\ task[t].resp.status # StatusOK) =>
             /\ task[t].pc \in {"status", "defer", "exit"}
             /\ task[t].pc = "defer" =>
                  task[t].panic = PanicValue(task[t].resp.status)
             /\ task[t].pc = "exit" =>
                  /\ task[t].panic = Nil
                  /\ [task |-> t,
                      err |-> PanicError(PanicValue(task[t].resp.status))]
                        \in Range(errorsLog)
                  /\ Outcomes(t) = 1
             /\ pc = "returned" => ret.err # Nil

\* one task panicked and was recovered, another one delivered its result
C2_Witness ==
    /\ pc = "returned"
    /\ \E t, u \in Tasks :
         /\ task[t].pc = "exit"
         /\ task[t].resp.status = 500
         /\ task[u].pc = "exit"
         /\ \E k \in DOMAIN resultsLog : resultsLog[k].task = u

AllExited == \A t \in Tasks : task[t].pc = "exit"

C6_Inv ==
    /\ \A t \in Tasks :
         /\ Outcomes(t) <= 1
         /\ task[t].pc \in {"idle", "get", "status", "decode", "senderr",
                            "sendres"} => Outcomes(t) = 0
         /\ (task[t].pc = "defer" /\ task[t].panic # Nil) => Outcomes(t) = 0
         /\ (task[t].pc = "defer" /\ task[t].panic = Nil) => Outcomes(t) = 1
         /\ task[t].pc = "exit" => Outcomes(t) = 1
    /\ Len(resultsLog) + Len(errorsLog) <= Len(cryptoIDs)
    /\ (launched = Len(cryptoIDs) /\ AllExited) =>
         Len(resultsLog) + Len(errorsLog) = Len(cryptoIDs)

\* C6: every started task sends exactly one value on the two channels
\* together, on every path: never two, and one once it has finished; every
\* task does finish, and then the outcomes number the identifiers.
C6_ExactlyOneOutcome ==
    /\ []C6_Inv
    /\ <>(launched = Len(cryptoIDs) /\ AllExited)

\* a result and a recovered panic among the outcomes of a full-size call
C6_Witness ==
    /\ Len(cryptoIDs) = MaxIDs
    /\ AllExited
    /\ Len(resultsLog) >= 1
    /\ \E k \in DOMAIN errorsLog : errorsLog[k].err[1] = "panic occurred:"

\* C7: the first error received ends the call at once: no second receive, no
\* wait for the other tasks. What is received is what the loop counted, so
\* nothing sent after the return is ever taken out of a channel.
C7_ReturnsOnFirstError ==
    /\ ResultsReceived = i
    /\ ErrorsReceived = (IF pc = "returned" /\ ret.err # Nil THEN 1 ELSE 0)
    /\ ErrorsReceived > 0 => pc = "returned"
    /\ i <= Len(cryptoIDs)
    /\ pc = "returned" =>
         Len(results) + Len(errors) =
           Len(resultsLog) + Len(errorsLog) - i - (IF ret.err # Nil THEN 1 ELSE 0)

\* returned on an error while another goroutine has its price record ready
\* and is about to send it to a channel nobody receives from any more
C7_Witness ==
    /\ pc = "returned"
    /\ ret.err # Nil
    /\ \E t \in Tasks : task[t].pc = "sendres"

\* C8: the returned slice is the send order on the results channel.
C8_CompletionOrder ==
    /\ prices = [k \in 1..Len(prices) |-> resultsLog[k].price]
    /\ (pc = "returned" /\ ret.err = Nil) =>
         ret.prices = [k \in 1..Len(resultsLog) |-> resultsLog[k].price]

\* a success whose order is not the input order
C8_Witness ==
    /\ pc = "returned"
    /\ ret.err = Nil
    /\ Len(ret.prices) >= 2
    /\ ret.prices[1].ID # cryptoIDs[1]
    /\ resultsLog[1].task # 1

\* C9: no send blocks. Neither channel ever holds more than its capacity and
\* every task that stands at a send finds room in the channel it sends on.
C9_NoSendBlocks ==
    /\ Len(results) <= ChanCap(cryptoIDs)
    /\ Len(errors) <= ChanCap(cryptoIDs)
    /\ \A t \in Tasks :
         /\ task[t].pc = "sendres" => Len(results) < ChanCap(cryptoIDs)
         /\ task[t].pc = "senderr" => Len(errors) < ChanCap(cryptoIDs)
         /\ (task[t].pc = "defer" /\ task[t].panic # Nil) =>
              Len(errors) < ChanCap(cryptoIDs)

\* after an early return every other task still ran to its end
C9_Witness ==
    /\ pc = "returned"
    /\ ret.err # Nil
    /\ Len(cryptoIDs) >= 2
    /\ AllExited
    /\ Len(results) + Len(errors) = Len(cryptoIDs) - 1

C10_EmptyInput ==
    cryptoIDs = <<>> =>
        /\ launched = 0
        /\ i = 0
        /\ resultsLog = <<>> /\ errorsLog = <<>>
        /\ pc = "returned" => ret = [prices |-> <<>>, err |-> Nil]

\* C10: FetchCryptoPrices terminates when requests complete and goroutines
\* are scheduled fairly; the loop receives at most len(cryptoIDs) values; an
\* empty list starts no task, receives nothing and returns (nil, nil).
C10_Terminates ==
    /\ <>(pc = "returned")
    /\ [](ResultsReceived + ErrorsReceived <= Len(cryptoIDs))
    /\ []C10_EmptyInput

C10_Witness ==
    /\ cryptoIDs = <<>>
    /\ pc = "returned"

----------------------------------------------------------------------------
(* Properties of the domain entities *)

C3_Inv ==
    call.op = "UpdatePrice" =>
        IF call.arg < 0
        THEN /\ call.err # Nil
             /\ crypto = call.pre
        ELSE /\ call.err = Nil
             /\ crypto.CurrentPrice = call.arg
             /\ crypto.LastUpdated = FormatRFC3339(call.at)
             /\ crypto.ID = call.pre.ID
             /\ crypto.Symbol = call.pre.Symbol
             /\ crypto.Name = call.pre.Name

\* C3: UpdatePrice(p) with p < 0 returns an error and leaves the entity as it
\* was; with p >= 0 it returns nil, stores p and the formatted current time
\* and leaves ID, Symbol and Name alone. So no step takes a non-negative
\* CurrentPrice to a negative one.
C3_UpdatePrice ==
    /\ []C3_Inv
    /\ [][crypto.CurrentPrice >= 0 => crypto'.CurrentPrice >= 0]_vars

\* a negative price refused on an entity that an earlier call had updated
C3_Witness ==
    /\ call.op = "UpdatePrice"
    /\ call.arg < 0
    /\ crypto.CurrentPrice > 0
    /\ crypto.LastUpdated.sec > 0

\* C4: Validate returns nil exactly when ID, Symbol and Name are non-empty
\* and CurrentPrice is not negative; LastUpdated does not matter and the
\* entity is not modified.
C4_Validate ==
    call.op = "Validate" =>
        /\ call.err = Nil <=>
             /\ crypto.ID # ""
             /\ crypto.Symbol # ""
             /\ crypto.Name # ""
             /\ ~(crypto.CurrentPrice < 0)
        /\ \A lu \in {NoTime, FormatRFC3339(0), FormatRFC3339(now)} :
             (Validate([crypto EXCEPT !.LastUpdated = lu]) = Nil)
                <=> (call.err = Nil)
        /\ crypto = call.pre

\* only the name is missing
C4_Witness ==
    /\ call.op = "Validate"
    /\ call.err # Nil
    /\ crypto.ID # "" /\ crypto.Symbol # "" /\ crypto.Name = ""
    /\ crypto.CurrentPrice >= 0

\* C5: GetPriceAt(i) panics exactly when i < 0 or i >= len(Prices); otherwise
\* it returns the i-th element, elements standing in the order AddCrypto put
\* them in. The batch is left unchanged either way.
C5_GetPriceAt ==
    /\ call.op = "GetPriceAt" =>
         /\ call.panic # Nil <=> (call.arg < 0 \/ call.arg >= Len(batch))
         /\ call.panic = Nil => call.out = batch[call.arg + 1]
         /\ batch = call.preBatch
    /\ call.op = "AddCrypto" =>
         /\ Len(batch) = Len(call.preBatch) + 1
         /\ batch[Len(batch)] = call.out
         /\ \A k \in DOMAIN call.preBatch : batch[k] = call.preBatch[k]

\* the first index past the end of a non-empty batch
C5_Witness ==
    /\ call.op = "GetPriceAt"
    /\ Len(batch) >= 1
    /\ call.arg = Len(batch)
    /\ call.panic # Nil

====
